---- MODULE Spec2Model ----
(***************************************************************************)
(* Project Noah's Ark - Biological Shop Manual Generator.                  *)
(* A model of src/project_noahs_ark_Version2.py: the catalogue             *)
(* (ShopManual), the fixed-column structure parser (DataFetcher), the      *)
(* scorer, the batch auditor (AdaptiveAutoAuditor) and the quantum auditor *)
(* (QuantumAuditor).                                                       *)
(*                                                                         *)
(* Text is a sequence of one-character strings.  Python objects are        *)
(* records of one shape, [t, s, n, d, keys, items]: t is the Python type,  *)
(* s a str's value, n an int's value or a float's numerator, d a float's   *)
(* denominator (floats are rationals in lowest terms), keys a dict's keys  *)
(* in insertion order, items a list's elements or a dict's values.         *)
(***************************************************************************)
EXTENDS Integers, Sequences, FiniteSets, TLC

(***************************************************************************)
(* Bounds of the model.                                                    *)
(***************************************************************************)
MaxLines == 3
MaxTargets == 3
MaxBatch == 2
MaxCalls == 4
MaxCallsBeforeRun == 1

(***************************************************************************)
(* Python values.                                                          *)
(***************************************************************************)
PyNone == [t |-> "None", s |-> "", n |-> 0, d |-> 1, keys |-> <<>>, items |-> <<>>]
PyStr(str) == [t |-> "str", s |-> str, n |-> 0, d |-> 1, keys |-> <<>>, items |-> <<>>]
PyInt(i) == [t |-> "int", s |-> "", n |-> i, d |-> 1, keys |-> <<>>, items |-> <<>>]
PyList(xs) == [t |-> "list", s |-> "", n |-> 0, d |-> 1, keys |-> <<>>, items |-> xs]
PyDict(ks, vs) == [t |-> "dict", s |-> "", n |-> 0, d |-> 1, keys |-> ks, items |-> vs]

Abs(i) == IF i < 0 THEN -i ELSE i
Min(a, b) == IF a <= b THEN a ELSE b

RECURSIVE GCD(_, _)
GCD(a, b) == IF b = 0 THEN a ELSE GCD(b, a % b)

\* A float: the rational num/den (den > 0) in lowest terms.
PyFloat(num, den) ==
  LET g == GCD(Abs(num), den)
  IN  [t |-> "float", s |-> "", n |-> num \div g, d |-> den \div g,
       keys |-> <<>>, items |-> <<>>]

\* Python's truth value of an object (bool(x)).
Truthy(v) ==
  CASE v.t = "None" -> FALSE
    [] v.t = "str" -> v.s # ""
    [] v.t \in {"int", "float"} -> v.n # 0
    [] OTHER -> v.items # <<>>

\* The position of key k in a dict's keys, 0 when absent.
RECURSIVE KeyIndex(_, _, _)
KeyIndex(ks, k, i) ==
  IF i > Len(ks) THEN 0
  ELSE IF ks[i] = k THEN i ELSE KeyIndex(ks, k, i + 1)

HasKey(dict, k) == KeyIndex(dict.keys, k, 1) # 0

\* dict.get(k, default)
DictGet(dict, k, default) ==
  LET i == KeyIndex(dict.keys, k, 1)
  IN  IF i = 0 THEN default ELSE dict.items[i]

(***************************************************************************)
(* Text: str operations of Python, on sequences of characters.             *)
(***************************************************************************)
RECURSIVE Join(_)
Join(cs) == IF cs = <<>> THEN "" ELSE Head(cs) \o Join(Tail(cs))

RECURSIVE Concat(_)
Concat(seqs) == IF seqs = <<>> THEN <<>> ELSE Head(seqs) \o Concat(Tail(seqs))

\* s[a:b] for 0 <= a <= b: a slice never raises, it clamps to the length.
Slice(line, a, b) == SubSeq(line, a + 1, Min(b, Len(line)))

StartsWith(line, prefix) ==
  /\ Len(line) >= Len(prefix)
  /\ SubSeq(line, 1, Len(prefix)) = prefix

WhiteSpace == {" ", "\t", "\n", "\r", "\f"}

RECURSIVE LStrip(_)
LStrip(cs) ==
  IF cs # <<>> /\ Head(cs) \in WhiteSpace THEN LStrip(Tail(cs)) ELSE cs

RECURSIVE RStrip(_)
RStrip(cs) ==
  IF cs # <<>> /\ cs[Len(cs)] \in WhiteSpace
  THEN RStrip(SubSeq(cs, 1, Len(cs) - 1)) ELSE cs

Strip(cs) == RStrip(LStrip(cs))

\* The line boundaries bytes.splitlines() knows, and those str.splitlines()
\* knows (of the characters of this model: form feed ends a line of a str,
\* not of a bytes).
ByteLineEnds == {"\n", "\r"}
StrLineEnds == {"\n", "\r", "\f"}

\* splitlines(): the lines without their ends; "\r\n" is one boundary; no
\* empty last line after a final boundary.
RECURSIVE SplitFrom(_, _, _)
SplitFrom(text, ends, i) ==
  IF i > Len(text) THEN <<>>
  ELSE LET at == {j \in i..Len(text) : text[j] \in ends}
       IN  IF at = {} THEN <<SubSeq(text, i, Len(text))>>
           ELSE LET j == CHOOSE m \in at : \A k \in at : m <= k
                    next == IF text[j] = "\r" /\ j < Len(text) /\ text[j + 1] = "\n"
                            THEN j + 2 ELSE j + 1
                IN  <<SubSeq(text, i, j - 1)>> \o SplitFrom(text, ends, next)

SplitLines(text, ends) == SplitFrom(text, ends, 1)

(***************************************************************************)
(* int() and float() of a str.  Of the characters of this model both       *)
(* accept surrounding whitespace and one sign; int() then wants one or     *)
(* more digits, float() digits with at most one point and at least one     *)
(* digit.  Anything else is a ValueError (ok = FALSE).                     *)
(***************************************************************************)
Digits == {"0", "1", "2", "3", "4", "5", "6", "7", "8", "9"}

DigitVal(c) ==
  CASE c = "0" -> 0 [] c = "1" -> 1 [] c = "2" -> 2 [] c = "3" -> 3
    [] c = "4" -> 4 [] c = "5" -> 5 [] c = "6" -> 6 [] c = "7" -> 7
    [] c = "8" -> 8 [] c = "9" -> 9

RECURSIVE DigitsVal(_, _)
DigitsVal(cs, acc) ==
  IF cs = <<>> THEN acc ELSE DigitsVal(Tail(cs), 10 * acc + DigitVal(Head(cs)))

RECURSIVE Pow10(_)
Pow10(k) == IF k = 0 THEN 1 ELSE 10 * Pow10(k - 1)

AllDigits(cs) == \A i \in 1..Len(cs) : cs[i] \in Digits

Unsigned(cs) == IF cs # <<>> /\ Head(cs) \in {"+", "-"} THEN Tail(cs) ELSE cs
Sign(cs) == IF cs # <<>> /\ Head(cs) = "-" THEN -1 ELSE 1

\* int(str), given the stripped text
IntOf(text) ==
  IF Unsigned(text) # <<>> /\ AllDigits(Unsigned(text))
  THEN [ok |-> TRUE, v |-> PyInt(Sign(text) * DigitsVal(Unsigned(text), 0))]
  ELSE [ok |-> FALSE, v |-> PyNone]

PyIntParse(cs) == IntOf(Strip(cs))

\* float(str), given the sign, the text after it and where its points are
FloatOf(sign, body, points) ==
  IF /\ Cardinality(points) <= 1
     /\ \A i \in 1..Len(body) : body[i] \in Digits \cup {"."}
     /\ Len(body) - Cardinality(points) >= 1
  THEN [ok |-> TRUE,
        v |-> PyFloat(sign * DigitsVal(SelectSeq(body, LAMBDA c : c # "."), 0),
                      Pow10(IF points = {} THEN 0
                            ELSE Len(body) - (CHOOSE i \in points : TRUE)))]
  ELSE [ok |-> FALSE, v |-> PyNone]

PointsOf(body) == {i \in 1..Len(body) : body[i] = "."}

FloatOfText(text) == FloatOf(Sign(text), Unsigned(text), PointsOf(Unsigned(text)))

PyFloatParse(cs) == FloatOfText(Strip(cs))

(***************************************************************************)
(* DataFetcher.                                                            *)
(***************************************************************************)
\* What Response.iter_lines() yields for a body: the body's lines, split as
\* bytes.splitlines() splits them, without their ends.
iter_lines(body) == SplitLines(body, ByteLineEnds)

\* fetch_pdb on a response: the text it returns on status 200 (the decoded
\* lines joined by the empty string), the exception it raises otherwise.
fetch_pdb(response) ==
  IF response.status_code = 200
  THEN [raised |-> FALSE, text |-> Concat(iter_lines(response.body))]
  ELSE [raised |-> TRUE, text |-> <<>>]

HEADER == <<"H", "E", "A", "D", "E", "R">>
ATOM == <<"A", "T", "O", "M">>
HETATM == <<"H", "E", "T", "A", "T", "M">>

AtomKeys == <<"serial", "name", "resName", "chainID", "resSeq", "x", "y", "z">>

\* A handler that catches ValueError only.
CaughtValueError(exc) == exc = "ValueError"

\* The exceptions the handler of the atom branch catches: except Exception.
Caught(exc) == exc \in {"ValueError", "IndexError"}

\* The body of the try block for one atom line, given what int() and
\* float() make of its fields: the dict literal's values are evaluated in the
\* order written and the first exception ends it.
AtomOf(line, serial, resSeq, x, y, z) ==
  IF ~serial.ok THEN [exc |-> "ValueError", atom |-> PyNone]
  ELSE IF Len(line) <= 21 THEN [exc |-> "IndexError", atom |-> PyNone]
  ELSE IF ~(resSeq.ok /\ x.ok /\ y.ok /\ z.ok)
       THEN [exc |-> "ValueError", atom |-> PyNone]
  ELSE [exc |-> "",
        atom |-> PyDict(AtomKeys,
                        << serial.v,
                           PyStr(Join(Strip(Slice(line, 12, 16)))),
                           PyStr(Join(Strip(Slice(line, 17, 20)))),
                           PyStr(line[22]),
                           resSeq.v, x.v, y.v, z.v >>)]

AtomOfLine(line) ==
  AtomOf(line, PyIntParse(Slice(line, 6, 11)), PyIntParse(Slice(line, 22, 26)),
         PyFloatParse(Slice(line, 30, 38)), PyFloatParse(Slice(line, 38, 46)),
         PyFloatParse(Slice(line, 46, 54)))

\* One turn of the for of parse_pdb_to_json on an atom line, r being the
\* outcome of its try block.
AtomTurn(data, r) ==
  IF r.exc = "" THEN [data EXCEPT !.atoms = Append(@, r.atom)]
  ELSE IF Caught(r.exc) THEN data
  ELSE [data EXCEPT !.raised = TRUE]

\* One turn of the for of parse_pdb_to_json.
LineTurn(data, line) ==
  IF StartsWith(line, HEADER)
  THEN [data EXCEPT !.header =
          PyDict(<<"classification">>, <<PyStr(Join(Strip(Slice(line, 10, 50))))>>)]
  ELSE IF StartsWith(line, ATOM) \/ StartsWith(line, HETATM)
  THEN AtomTurn(data, AtomOfLine(line))
  ELSE data

\* The for of parse_pdb_to_json over the lines from the i-th on, data being
\* the dict built so far.
RECURSIVE ParseLines(_, _, _)
ParseLines(lines, i, data) ==
  IF i > Len(lines) \/ data.raised THEN data
  ELSE ParseLines(lines, i + 1, LineTurn(data, lines[i]))

parse_pdb_to_json(text) ==
  ParseLines(SplitLines(text, StrLineEnds), 1,
             [raised |-> FALSE, header |-> PyDict(<<>>, <<>>), atoms |-> <<>>])

(***************************************************************************)
(* Input texts: lines in the fixed-column layout.                          *)
(***************************************************************************)
RECURSIVE Spaces(_)
Spaces(k) == IF k <= 0 THEN <<>> ELSE <<" ">> \o Spaces(k - 1)

RJust(cs, w) == Spaces(w - Len(cs)) \o cs
LJust(cs, w) == cs \o Spaces(w - Len(cs))

\* tag 0..5, serial 6..10, name 12..15, resName 17..19, chainID 21,
\* resSeq 22..25, x 30..37, y 38..45, z 46..53.
AtomLine(tag, serial, name, resName, chain, resSeq, x, y, z) ==
  LJust(tag, 6) \o RJust(serial, 5) \o <<" ">> \o LJust(name, 4) \o <<" ">>
    \o RJust(resName, 3) \o <<" ">> \o chain \o RJust(resSeq, 4) \o Spaces(4)
    \o RJust(x, 8) \o RJust(y, 8) \o RJust(z, 8)

HeaderLine == LJust(HEADER, 10) \o <<"M", "A", "G", "N", "E", "T", "I", "C">>

NotNumber == <<"x", "1">>
One == <<"1", ".", "0", "0", "0">>
Two == <<"2", ".", "0", "0", "0">>
Three == <<"3", ".", "0", "0", "0">>

\* serial 1, name FE, residue MAG, chain A, resSeq 10, at (1.0, 2.0, 3.0)
FeLine ==
  AtomLine(ATOM, <<"1">>, <<"F", "E">>, <<"M", "A", "G">>, <<"A">>,
           <<"1", "0">>, One, Two, Three)

\* serial 2, name N1, residue FAD, chain B, resSeq 5, at (-1.5, 0.0, 12.5)
FadLine ==
  AtomLine(HETATM, <<"2">>, <<"N", "1">>, <<"F", "A", "D">>, <<"B">>,
           <<"5">>, <<"-", "1", ".", "5", "0", "0">>,
           <<"0", ".", "0", "0", "0">>, <<"1", "2", ".", "5", "0", "0">>)

\* serial 3, name CA, residue PHE, chain A, resSeq 11, at (2.0, 1.0, 3.0)
PheLine ==
  AtomLine(ATOM, <<"3">>, <<"C", "A">>, <<"P", "H", "E">>, <<"A">>,
           <<"1", "1">>, Two, One, Three)

\* FeLine with one numeric field replaced by text that is no number.
BadLines ==
  { AtomLine(ATOM, f[1], <<"F", "E">>, <<"M", "A", "G">>, <<"A">>,
             f[2], f[3], f[4], f[5]) :
      f \in { << NotNumber, <<"1", "0">>, One, Two, Three >>,
              << <<"1">>, NotNumber, One, Two, Three >>,
              << <<"1">>, <<"1", "0">>, NotNumber, Two, Three >>,
              << <<"1">>, <<"1", "0">>, One, NotNumber, Three >>,
              << <<"1">>, <<"1", "0">>, One, Two, NotNumber >> } }

\* Atom lines cut short of the 54 characters that hold every field.
FullWidth == 54
ShortLens == {21, 47, 51}
ShortLines == { SubSeq(FadLine, 1, k) : k \in ShortLens }

Lines == {FeLine, FadLine, HeaderLine} \cup BadLines \cup ShortLines

RECURSIVE JoinLines(_)
JoinLines(ls) ==
  IF ls = <<>> THEN <<>>
  ELSE IF Len(ls) = 1 THEN ls[1]
  ELSE ls[1] \o <<"\n">> \o JoinLines(Tail(ls))

Texts == UNION { { JoinLines(ls) : ls \in [1..k -> Lines] } : k \in 0..MaxLines }

(***************************************************************************)
(* Scorer.                                                                 *)
(***************************************************************************)
compute_geps(modality, material, spatial, functional, dynamic, pathology, multi_physics, efficiency) ==
  LET score == modality + material + spatial + functional + dynamic
                 + pathology + multi_physics + efficiency
  IN  PyFloat(score * 100, 24)

compute_qgeps(coherence, advantage, shielding, evidence) ==
  LET score == coherence + advantage + shielding + evidence
  IN  PyFloat(score * 100, 12)

(***************************************************************************)
(* ShopManual.                                                             *)
(***************************************************************************)
\* An insert at the front instead of an append.
insert_entry(es, entry) == <<entry>> \o es

add_entry(es, entry) == Append(es, entry)

\* The for loop of get_entry_by_id from the i-th entry on.
RECURSIVE EntryFrom(_, _, _)
EntryFrom(es, part_id, i) ==
  IF i > Len(es) THEN PyDict(<<>>, <<>>)
  ELSE IF DictGet(es[i], "PartID", PyNone) = part_id THEN es[i]
  ELSE EntryFrom(es, part_id, i + 1)

\* A scan that keeps the last match instead of returning at the first.
RECURSIVE LastEntryFrom(_, _, _, _)
LastEntryFrom(es, part_id, i, found) ==
  IF i > Len(es) THEN found
  ELSE LastEntryFrom(es, part_id, i + 1,
         IF DictGet(es[i], "PartID", PyNone) = part_id THEN es[i] ELSE found)

get_last_entry_by_id(es, part_id) == LastEntryFrom(es, part_id, 1, PyDict(<<>>, <<>>))

get_entry_by_id(es, part_id) == EntryFrom(es, part_id, 1)

\* JSON text, as its tokens (the white space of indent=2 is left out): the
\* punctuation, and the literals null, string, int (digits only) and float
\* (written with a point or an exponent).
Tok(kind) == [k |-> kind, s |-> "", n |-> 0, d |-> 1]

\* json.dumps: the text of v (what = "value"), of the items of the list v
\* from the i-th on ("items"), of the members of the dict v from the i-th on
\* ("members").
RECURSIVE Dump(_, _, _)
Dump(what, v, i) ==
  CASE what = "items" ->
         IF i > Len(v.items) THEN <<>>
         ELSE (IF i > 1 THEN <<Tok(",")>> ELSE <<>>)
                \o Dump("value", v.items[i], 1) \o Dump("items", v, i + 1)
    [] what = "members" ->
         IF i > Len(v.keys) THEN <<>>
         ELSE (IF i > 1 THEN <<Tok(",")>> ELSE <<>>)
                \o <<[Tok("string") EXCEPT !.s = v.keys[i]], Tok(":")>>
                \o Dump("value", v.items[i], 1) \o Dump("members", v, i + 1)
    [] what = "value" /\ v.t = "None" -> <<Tok("null")>>
    [] what = "value" /\ v.t = "str" -> <<[Tok("string") EXCEPT !.s = v.s]>>
    [] what = "value" /\ v.t = "int" -> <<[Tok("int") EXCEPT !.n = v.n]>>
    [] what = "value" /\ v.t = "float" -> <<[Tok("float") EXCEPT !.n = v.n, !.d = v.d]>>
    [] what = "value" /\ v.t = "list" ->
         <<Tok("[")>> \o Dump("items", v, 1) \o <<Tok("]")>>
    [] what = "value" /\ v.t = "dict" ->
         <<Tok("{")>> \o Dump("members", v, 1) \o <<Tok("}")>>

Dumps(v) == Dump("value", v, 1)

\* json.loads: the value that starts at token i and the token after it
\* (what = "value"); the rest of a list after the items xs, of a dict after
\* the keys ks and the values xs ("items", "members").
RECURSIVE Load(_, _, _, _, _)
Load(what, toks, i, ks, xs) ==
  CASE what = "items" ->
         IF toks[i].k = "]" THEN [v |-> PyList(xs), next |-> i + 1]
         ELSE LET j == IF toks[i].k = "," THEN i + 1 ELSE i
                  x == Load("value", toks, j, <<>>, <<>>)
              IN  Load("items", toks, x.next, ks, Append(xs, x.v))
    [] what = "members" ->
         IF toks[i].k = "}" THEN [v |-> PyDict(ks, xs), next |-> i + 1]
         ELSE LET j == IF toks[i].k = "," THEN i + 1 ELSE i
                  x == Load("value", toks, j + 2, <<>>, <<>>)
              IN  Load("members", toks, x.next, Append(ks, toks[j].s), Append(xs, x.v))
    [] what = "value" /\ toks[i].k = "null" -> [v |-> PyNone, next |-> i + 1]
    [] what = "value" /\ toks[i].k = "string" -> [v |-> PyStr(toks[i].s), next |-> i + 1]
    [] what = "value" /\ toks[i].k = "int" -> [v |-> PyInt(toks[i].n), next |-> i + 1]
    [] what = "value" /\ toks[i].k = "float" ->
         [v |-> PyFloat(toks[i].n, toks[i].d), next |-> i + 1]
    [] what = "value" /\ toks[i].k = "[" -> Load("items", toks, i + 1, <<>>, <<>>)
    [] what = "value" /\ toks[i].k = "{" -> Load("members", toks, i + 1, <<>>, <<>>)

Loads(toks) == Load("value", toks, 1, <<>>, <<>>).v

to_json(es) == Dumps(PyList(es))

\* A load that extends the entries held instead of replacing them.
merge_json(es, json_str) == es \o Loads(json_str).items

\* What load_json leaves in self.entries, es being what it held before.
load_json(es, json_str) == Loads(json_str).items

(***************************************************************************)
(* AdaptiveAutoAuditor.audit_structure and QuantumAuditor.                 *)
(***************************************************************************)
\* str(x) inside an f-string
Format(v) == IF v.t = "None" THEN "None" ELSE v.s

StructuralKeys ==
  << "PartID", "BiologicalStructure", "InorganicCore", "PrimaryFunction",
     "SecondaryFunction", "GEPS_Score", "FailureMode_Engineering",
     "FailureMode_Biological", "DataSources", "ValidationPath", "Atoms" >>

\* The entry audit_structure builds.
StructuralEntry(target, pdb_id, geps, pdb_json) ==
  PyDict(StructuralKeys,
    << DictGet(target, "PartID", PyNone),
       DictGet(target, "Name", PyNone),
       DictGet(target, "Inorganic", PyStr("None")),
       DictGet(target, "PrimaryFunction", PyStr("Unknown")),
       DictGet(target, "SecondaryFunction", PyStr("Unknown")),
       geps,
       DictGet(target, "FailureModeEngineering", PyStr("")),
       DictGet(target, "FailureModeBiological", PyStr("")),
       PyStr("PDB:" \o Format(pdb_id)),
       PyStr("Structural Analysis"),
       PyList(pdb_json.atoms) >>)

\* audit_structure up to the entry it builds, given the response to its
\* request; raised when fetch_pdb raises.
audit_structure(target, response) ==
  IF fetch_pdb(response).raised THEN [raised |-> TRUE, entry |-> PyNone]
  ELSE [raised |-> FALSE,
        entry |-> StructuralEntry(target, DictGet(target, "PDB", PyNone),
                    compute_geps(3, 3, 3, 3, 3, 3, 3, 3),
                    parse_pdb_to_json(fetch_pdb(response).text))]

\* sum(1 for atom in atoms if atom[key] in names)
CountAtoms(atoms, key, names) ==
  Cardinality({i \in 1..Len(atoms) : DictGet(atoms[i], key, PyNone).s \in names})

\* Features whose radical-pair flag wants every atom to be of residue FAD.
identify_all_fad(pdb_json) ==
  [ aromatic_rings |-> CountAtoms(pdb_json.atoms, "resName", {"PHE", "TRP", "TYR"}),
    chiral_centers |->
      CountAtoms(pdb_json.atoms, "resName", {"ALA", "VAL", "LEU", "ILE", "THR", "SER"}),
    metal_clusters |-> CountAtoms(pdb_json.atoms, "name", {"FE", "MN", "CU", "MG"}),
    radical_pairs |->
      IF pdb_json.atoms # <<>> /\ \A i \in 1..Len(pdb_json.atoms) :
           DictGet(pdb_json.atoms[i], "resName", PyNone).s = "FAD"
      THEN 1 ELSE 0,
    decoherence |-> "Oxygen / Thermal Noise" ]

identify_quantum_features(pdb_json) ==
  [ aromatic_rings |-> CountAtoms(pdb_json.atoms, "resName", {"PHE", "TRP", "TYR"}),
    chiral_centers |->
      CountAtoms(pdb_json.atoms, "resName", {"ALA", "VAL", "LEU", "ILE", "THR", "SER"}),
    metal_clusters |-> CountAtoms(pdb_json.atoms, "name", {"FE", "MN", "CU", "MG"}),
    radical_pairs |->
      IF \E i \in 1..Len(pdb_json.atoms) :
           DictGet(pdb_json.atoms[i], "resName", PyNone).s = "FAD"
      THEN 1 ELSE 0,
    decoherence |-> "Oxygen / Thermal Noise" ]

QuantumKeys ==
  << "PartID", "BiologicalStructure", "QuantumPrimitive", "Q-GEPS_Score",
     "DecoherenceSource", "ProposedQuantumFunction", "QuantumValidationPath",
     "DataSources" >>

\* The entry audit_quantum_candidate builds.
QuantumEntry(pdb_id, part_id, name, quantum_features) ==
  PyDict(QuantumKeys,
    << part_id, name,
       PyStr("Quantum Sensor / Qubit Candidate"),
       compute_qgeps(IF quantum_features.aromatic_rings # 0 THEN 3 ELSE 1,
                     IF quantum_features.radical_pairs # 0 THEN 3 ELSE 1,
                     IF quantum_features.metal_clusters # 0 THEN 3 ELSE 1,
                     2),
       PyStr(quantum_features.decoherence),
       PyStr("Magnetoreception / Coherent Energy Transport"),
       PyStr("2D Spectroscopy / Pulsed EPR"),
       PyStr("PDB:" \o Format(pdb_id)) >>)

\* audit_quantum_candidate up to the entry it builds, given the response to
\* its request; raised when fetch_pdb raises.
audit_quantum_candidate(pdb_id, part_id, name, response) ==
  IF fetch_pdb(response).raised THEN [raised |-> TRUE, entry |-> PyNone]
  ELSE [raised |-> FALSE,
        entry |-> QuantumEntry(pdb_id, part_id, name,
                    identify_quantum_features(
                      parse_pdb_to_json(fetch_pdb(response).text)))]

(***************************************************************************)
(* Inputs: the targets, the entries a caller adds, the responses of the    *)
(* repository.                                                             *)
(***************************************************************************)
TargetKeys ==
  << "PartID", "Name", "PDB", "Inorganic", "PrimaryFunction",
     "SecondaryFunction", "FailureModeEngineering", "FailureModeBiological" >>

Target(part_id, name, pdb, inorganic, primary, secondary, eng, bio) ==
  PyDict(TargetKeys,
         << PyStr(part_id), PyStr(name), PyStr(pdb), PyStr(inorganic),
            PyStr(primary), PyStr(secondary), PyStr(eng), PyStr(bio) >>)

generate_targets ==
  << Target("MAG-001", "Magnetosome", "4DYF", "Magnetite", "Non-Volatile Memory",
            "Magnetometer", "Bit Flip / Array Corruption", "Navigational Deficit"),
     Target("BONE-001", "Osteon Hydroxyapatite", "1AOE", "Hydroxyapatite",
            "Load Bearing", "Piezoelectric Transducer", "Fracture / Microcrack",
            "Osteoporosis"),
     Target("DIA-001", "Diatom Frustule", "2QID", "Silica", "Structural Scaffold",
            "Optical Waveguide", "Crack / Shear", "Growth Impairment") >>

\* Target lists: generate_targets(), repeated when more are asked for, cut
\* to every length up to MaxTargets.
TargetList(k) == [i \in 1..k |-> generate_targets[((i - 1) % Len(generate_targets)) + 1]]
TargetLists == { TargetList(k) : k \in 0..MaxTargets }

BatchSizes == (-1)..MaxBatch

\* Entries a caller adds itself: one that shares its PartID with a target,
\* one without a PartID.
ManualEntries ==
  { PyDict(<<"PartID", "Note">>, <<PyStr("MAG-001"), PyStr("manual")>>),
    PyDict(<<"Note">>, <<PyStr("no id")>>) }

LookupIds == {PyStr("MAG-001"), PyStr("CRY-001")}

Ok(body) == [status_code |-> 200, body |-> body]
NotFound == [status_code |-> 404, body |-> <<>>]

\* A HEADER line and one atom line, each ended by a newline.
HeaderFeBody == HeaderLine \o <<"\n">> \o FeLine \o <<"\n">>
\* A HEADER line and two atom lines.
HeaderFeFadBody == HeaderFeBody \o FadLine \o <<"\n">>
\* One atom line and nothing else.
FeBody == FeLine
\* Two atom lines with a form feed between them.
PheFadBody == PheLine \o <<"\f">> \o FadLine

StructuralResponses == {NotFound, Ok(HeaderFeFadBody), Ok(FeBody)}
BatchResponses == {NotFound, Ok(HeaderFeBody)}
QuantumResponses == {Ok(HeaderFeBody), Ok(FeBody), Ok(PheFadBody)}

(***************************************************************************)
(* State.                                                                  *)
(***************************************************************************)
VARIABLES
  pc,           \* where control is: with the caller ("idle", "returned",
                \* "raised"), in auto_run's loop or in run_batch's loop
  call,         \* the call in progress, or the last one made
  built,        \* whether the caller has built its AdaptiveAutoAuditor
  ncalls,       \* how many calls the caller has made
  entries,      \* ShopManual.entries
  targets,      \* AdaptiveAutoAuditor.targets
  batch_size,   \* AdaptiveAutoAuditor.batch_size
  batch,        \* auto_run's batch, run_batch's argument
  results,      \* run_batch's results
  printed,      \* the batch lengths auto_run has printed
  requests,     \* the requests the current call has made, with their responses
  arg,          \* the argument of the last call
  ret,          \* what the last call returned
  old_entries,  \* entries when the last call was made
  run_targets,  \* targets when auto_run was called
  json_str,     \* the last to_json() text
  json_of,      \* entries when it was taken
  pdb_text,     \* the argument of parse_pdb_to_json
  data          \* what parse_pdb_to_json returned

vars ==
  << pc, call, built, ncalls, entries, targets, batch_size, batch, results, printed,
     requests, arg, ret, old_entries, run_targets, json_str, json_of,
     pdb_text, data >>

\* The auditor's fields, the locals of auto_run and run_batch, what the
\* last call printed.
auditor == <<targets, batch_size>>
locals == <<batch, results>>
output == <<printed, run_targets>>
saved == <<json_str, json_of>>
parser == <<pdb_text, data>>

NoData == [raised |-> FALSE, header |-> PyDict(<<>>, <<>>), atoms |-> <<>>]

(***************************************************************************)
(* The parser alone, on every text of Texts.                               *)
(***************************************************************************)
InitParse ==
  /\ pc = "parse"
  /\ pdb_text \in Texts
  /\ data = NoData
  /\ call = "parse_pdb_to_json" /\ ncalls = 0 /\ built = FALSE
  /\ entries = <<>> /\ targets = <<>> /\ batch_size = 0
  /\ batch = <<>> /\ results = <<>> /\ printed = <<>> /\ requests = <<>>
  /\ arg = PyNone /\ ret = PyNone
  /\ old_entries = <<>> /\ run_targets = <<>>
  /\ json_str = <<>> /\ json_of = <<>>

ParsePdbToJson ==
  /\ pc = "parse"
  /\ data' = parse_pdb_to_json(pdb_text)
  /\ pc' = "parsed"
  /\ UNCHANGED << call, built, ncalls, entries, old_entries, arg, ret, requests,
                  pdb_text >>
  /\ UNCHANGED << auditor, locals, output, saved >>

NextParse == ParsePdbToJson

SpecParse == InitParse /\ [][NextParse]_vars

(***************************************************************************)
(* The program: a caller that holds a ShopManual, an AdaptiveAutoAuditor   *)
(* built on it and a QuantumAuditor, and calls them one call at a time.    *)
(***************************************************************************)
Init ==
  /\ pc = "idle"
  /\ call = "" /\ ncalls = 0 /\ built = FALSE
  /\ entries = <<>>
  /\ targets = <<>>
  /\ batch_size = 0
  /\ batch = <<>> /\ results = <<>> /\ printed = <<>> /\ requests = <<>>
  /\ arg = PyNone /\ ret = PyNone
  /\ old_entries = <<>> /\ run_targets = <<>>
  /\ json_str = <<>> /\ json_of = <<>>
  /\ pdb_text = <<>> /\ data = NoData

\* The caller may make a call.
Ready == pc \in {"idle", "returned", "raised"} /\ ncalls < MaxCalls

\* A call is made: what the call before it requested and printed is gone.
Called(name, a) ==
  /\ call' = name
  /\ arg' = a
  /\ ncalls' = ncalls + 1
  /\ old_entries' = entries
  /\ printed' = <<>>
  /\ UNCHANGED << locals, parser >>

\* A call that is not a run of an auditor: the auditor of the last run is
\* gone.
NoAuditor ==
  /\ UNCHANGED built
  /\ targets' = <<>>
  /\ batch_size' = 0
  /\ run_targets' = <<>>

Request(pdb_id, response) ==
  [pdb_id |-> Format(pdb_id), status_code |-> response.status_code,
   body |-> response.body]

AddEntry(entry) ==
  /\ Ready
  /\ Called("add_entry", entry)
  /\ entries' = add_entry(entries, entry)
  /\ ret' = PyNone
  /\ pc' = "idle"
  /\ requests' = <<>>
  /\ NoAuditor
  /\ UNCHANGED saved

GetEntryById(part_id) ==
  /\ Ready
  /\ Called("get_entry_by_id", part_id)
  /\ ret' = get_entry_by_id(entries, part_id)
  /\ pc' = "idle"
  /\ requests' = <<>>
  /\ NoAuditor
  /\ UNCHANGED << entries, saved >>

ToJson ==
  /\ Ready
  /\ Called("to_json", PyNone)
  /\ json_str' = to_json(entries)
  /\ json_of' = entries
  /\ ret' = PyNone
  /\ pc' = "idle"
  /\ requests' = <<>>
  /\ NoAuditor
  /\ UNCHANGED entries

\* load_json of the text the last to_json() returned.
LoadJson ==
  /\ Ready
  /\ json_str # <<>>
  /\ Called("load_json", PyNone)
  /\ entries' = load_json(entries, json_str)
  /\ ret' = PyNone
  /\ pc' = "idle"
  /\ requests' = <<>>
  /\ NoAuditor
  /\ UNCHANGED saved

\* An audit ends: it raises, or appends its entry and returns it.
Audited(r) ==
  IF r.raised
  THEN /\ pc' = "raised"
       /\ ret' = PyNone
       /\ UNCHANGED entries
  ELSE /\ pc' = "idle"
       /\ entries' = add_entry(entries, r.entry)
       /\ ret' = r.entry

\* A direct call of audit_structure.
AuditStructure(target, response) ==
  /\ Ready
  /\ Called("audit_structure", target)
  /\ requests' = <<Request(DictGet(target, "PDB", PyNone), response)>>
  /\ NoAuditor
  /\ Audited(audit_structure(target, response))
  /\ UNCHANGED saved

AuditQuantumCandidate(pdb_id, part_id, name, response) ==
  /\ Ready
  /\ Called("audit_quantum_candidate", PyList(<<pdb_id, part_id, name>>))
  /\ requests' = <<Request(pdb_id, response)>>
  /\ NoAuditor
  /\ Audited(audit_quantum_candidate(pdb_id, part_id, name, response))
  /\ UNCHANGED saved

\* The caller builds its AdaptiveAutoAuditor on the ShopManual, with a
\* target list and a batch size, and calls its auto_run; it does so once,
\* after at most MaxCallsBeforeRun other calls.
AutoRun(ts, size) ==
  /\ Ready
  /\ ~built
  /\ ncalls <= MaxCallsBeforeRun
  /\ built' = TRUE
  /\ Called("auto_run", PyNone)
  /\ targets' = ts
  /\ batch_size' = size
  /\ run_targets' = ts
  /\ pc' = "auto_run"
  /\ requests' = <<>>
  /\ ret' = PyNone
  /\ UNCHANGED << entries, saved >>

\* A batch of k targets read from the queue of which only the first is
\* removed.
PopLeftOnce(k) ==
  /\ batch' = SubSeq(targets, 1, k)
  /\ targets' = SubSeq(targets, Min(k, 1) + 1, Len(targets))

\* [self.targets.popleft() for _ in range(k)]
PopLeft(k) ==
  /\ batch' = SubSeq(targets, 1, k)
  /\ targets' = SubSeq(targets, k + 1, Len(targets))

\* The while of auto_run: return when no target is left, else pop the
\* next min(batch_size, len(targets)) targets (none when that is not
\* positive) and call run_batch on them.
AutoRunLoop ==
  /\ pc = "auto_run"
  /\ IF targets = <<>>
     THEN /\ pc' = "returned"
          /\ batch' = <<>>
          /\ results' = <<>>
          /\ UNCHANGED targets
     ELSE /\ PopLeft(IF Min(batch_size, Len(targets)) < 0 THEN 0
                     ELSE Min(batch_size, Len(targets)))
          /\ results' = <<>>
          /\ pc' = "run_batch"
  /\ UNCHANGED << call, built, arg, ncalls, entries, old_entries, batch_size,
                  requests, ret, output, saved, parser >>

\* A run_batch that catches what audit_structure raises and goes on.
BatchAuditedOrSkipped(r) ==
  IF r.raised
  THEN /\ pc' = "run_batch"
       /\ results' = Append(results, PyNone)
       /\ UNCHANGED << entries, batch >>
  ELSE /\ pc' = "run_batch"
       /\ entries' = add_entry(entries, r.entry)
       /\ results' = Append(results, r.entry)
       /\ UNCHANGED batch

\* One turn of the for of run_batch ends: audit_structure raises, and so do
\* run_batch and auto_run, or it appends its entry, which run_batch appends
\* to its results.
BatchAudited(r) ==
  IF r.raised
  THEN /\ pc' = "raised"
       /\ batch' = <<>>
       /\ results' = <<>>
       /\ UNCHANGED entries
  ELSE /\ pc' = "run_batch"
       /\ entries' = add_entry(entries, r.entry)
       /\ results' = Append(results, r.entry)
       /\ UNCHANGED batch

\* One turn of the for of run_batch: audit_structure of the next target.
RunBatchAudit(response) ==
  /\ pc = "run_batch"
  /\ Len(results) < Len(batch)
  /\ requests' = Append(requests,
                   Request(DictGet(batch[Len(results) + 1], "PDB", PyNone), response))
  /\ BatchAudited(audit_structure(batch[Len(results) + 1], response))
  /\ UNCHANGED << call, built, arg, ncalls, old_entries, auditor, ret, output, saved, parser >>

\* run_batch returns and auto_run prints the length of the batch.  The
\* output is kept up to MaxTargets + 1 lines.
RunBatchReturn ==
  /\ pc = "run_batch"
  /\ Len(results) = Len(batch)
  /\ Len(printed) <= MaxTargets
  /\ printed' = Append(printed, Len(batch))
  /\ pc' = "auto_run"
  /\ UNCHANGED << call, built, arg, ncalls, entries, old_entries, auditor, locals,
                  requests, ret, run_targets, saved, parser >>

\* Every call but load_json.
NextAppend ==
  \/ \E entry \in ManualEntries : AddEntry(entry)
  \/ \E part_id \in LookupIds : GetEntryById(part_id)
  \/ ToJson
  \/ \E response \in StructuralResponses : AuditStructure(generate_targets[1], response)
  \/ \E response \in QuantumResponses :
       AuditQuantumCandidate(PyStr("6ZU0"), PyStr("CRY-001"),
                             PyStr("Cryptochrome 4"), response)
  \/ \E ts \in TargetLists, size \in BatchSizes : AutoRun(ts, size)
  \/ AutoRunLoop
  \/ \E response \in BatchResponses : RunBatchAudit(response)
  \/ RunBatchReturn

SpecAppend == Init /\ [][NextAppend]_vars

Next ==
  \/ NextAppend
  \/ LoadJson

Spec == Init /\ [][Next]_vars

(***************************************************************************)
(* Properties.                                                             *)
(***************************************************************************)
IsPrefix(a, b) == Len(a) <= Len(b) /\ SubSeq(b, 1, Len(a)) = a

Field(entry, key) == DictGet(entry, key, PyNone)

AtomTagged(line) == StartsWith(line, ATOM) \/ StartsWith(line, HETATM)

\* An atom line whose five numeric fields convert.
WellFormedAtomLine(line) ==
  /\ AtomTagged(line)
  /\ PyIntParse(Slice(line, 6, 11)).ok
  /\ PyIntParse(Slice(line, 22, 26)).ok
  /\ PyFloatParse(Slice(line, 30, 38)).ok
  /\ PyFloatParse(Slice(line, 38, 46)).ok
  /\ PyFloatParse(Slice(line, 46, 54)).ok

\* The record that carries the fields of a well-formed atom line.
RecordOfLine(line) ==
  PyDict(AtomKeys,
         << PyIntParse(Slice(line, 6, 11)).v,
            PyStr(Join(Strip(Slice(line, 12, 16)))),
            PyStr(Join(Strip(Slice(line, 17, 20)))),
            PyStr(line[22]),
            PyIntParse(Slice(line, 22, 26)).v,
            PyFloatParse(Slice(line, 30, 38)).v,
            PyFloatParse(Slice(line, 38, 46)).v,
            PyFloatParse(Slice(line, 46, 54)).v >>)

RecordsOf(lines) == [i \in 1..Len(lines) |-> RecordOfLine(lines[i])]

LinesOf(text) == SplitLines(text, StrLineEnds)

\* The last request of the call, and its response.
LastRequest == requests[Len(requests)]
Response == Ok(LastRequest.body)

\* A body whose lines are a HEADER line and then one or more well-formed atom
\* lines of full width.
StructuralText(body) ==
  /\ Len(iter_lines(body)) >= 2
  /\ StartsWith(iter_lines(body)[1], HEADER)
  /\ \A i \in 2..Len(iter_lines(body)) :
       /\ WellFormedAtomLine(iter_lines(body)[i])
       /\ Len(iter_lines(body)[i]) >= FullWidth

\* audit_structure has just returned, to the caller or to run_batch.
Returned(entry) ==
  \/ pc = "idle" /\ call = "audit_structure" /\ ret = entry
  \/ pc = "run_batch" /\ results # <<>> /\ results[Len(results)] = entry

\* C1: when the response body is a HEADER line followed by one or more
\* well-formed atom lines, audit_structure appends and returns an entry whose
\* DataSources is "PDB:<accession id>", whose GEPS_Score is 100.0 and whose
\* Atoms holds one record per atom line of the response, in line order.
C1_AuditKeepsEveryAtomLine ==
  \A entry \in {entries[i] : i \in {Len(entries)} \ {0}} :
    (Returned(entry) /\ StructuralText(LastRequest.body))
      => /\ Field(entry, "DataSources") = PyStr("PDB:" \o LastRequest.pdb_id)
         /\ Field(entry, "GEPS_Score") = PyFloat(100, 1)
         /\ Field(entry, "Atoms") = PyList(RecordsOf(Tail(iter_lines(LastRequest.body))))

Chunks(n, b) == [i \in 1..((n + b - 1) \div b) |-> Min(b, n - (i - 1) * b)]

\* C3: auto_run with a batch size b >= 1 whose fetches all succeed audits
\* the n targets once each in list order, in chunks of b (the last one
\* smaller), and returns with n more entries in the catalogue, whose PartIDs
\* are the targets' in order.
C3_AutoRunAuditsInChunks ==
  (pc = "returned" /\ call = "auto_run" /\ batch_size >= 1)
    => /\ targets = <<>>
       /\ printed = Chunks(Len(run_targets), batch_size)
       /\ Len(requests) = Len(run_targets)
       /\ \A i \in 1..Len(run_targets) :
            /\ requests[i].pdb_id = Field(run_targets[i], "PDB").s
            /\ requests[i].status_code = 200
       /\ IsPrefix(old_entries, entries)
       /\ Len(entries) = Len(old_entries) + Len(run_targets)
       /\ \A i \in 1..Len(run_targets) :
            Field(entries[Len(old_entries) + i], "PartID") = Field(run_targets[i], "PartID")

\* Three targets in batches of two, onto a catalogue that held an entry.
C3_Witness ==
  /\ pc = "returned" /\ call = "auto_run"
  /\ batch_size = 2
  /\ Len(run_targets) = 3
  /\ printed = <<2, 1>>
  /\ Len(old_entries) = 1
  /\ Len(entries) = 4

\* C4: when the fetch for the k-th target of a run fails, auto_run raises:
\* no entry is appended for that target, the catalogue holds the entries it
\* held before the run and those of targets 1..k-1 in order, as just before
\* the failing audit, and no later target is fetched or audited.
C4_FetchFailureAborts ==
  [][ /\ ( /\ pc = "run_batch"
           /\ Len(requests') = Len(requests) + 1
           /\ requests'[Len(requests')].status_code # 200 )
        => /\ pc' = "raised"
           /\ entries' = entries
           /\ \A j \in 1..Len(requests) : requests'[j].status_code = 200
           /\ \A j \in 1..Len(requests') :
                requests'[j].pdb_id = Field(run_targets[j], "PDB").s
           /\ IsPrefix(old_entries, entries')
           /\ Len(entries') = Len(old_entries) + Len(requests)
           /\ \A j \in 1..Len(requests) :
                Field(entries'[Len(old_entries) + j], "PartID")
                  = Field(run_targets[j], "PartID")
      /\ (pc = "raised" /\ call = "auto_run") => ncalls' = ncalls + 1
    ]_vars

\* The second fetch of a run of three targets fails.
C4_Witness ==
  /\ pc = "raised" /\ call = "auto_run"
  /\ Len(run_targets) = 3
  /\ Len(requests) = 2
  /\ requests[1].status_code = 200
  /\ requests[2].status_code = 404
  /\ Len(entries) = Len(old_entries) + 1

ParsedAtoms == parse_pdb_to_json(fetch_pdb(Response).text).atoms

SomeAtom(key, names) ==
  \E i \in 1..Len(ParsedAtoms) : Field(ParsedAtoms[i], key).s \in names

Coherence == IF SomeAtom("resName", {"PHE", "TRP", "TYR"}) THEN 3 ELSE 1
Advantage == IF SomeAtom("resName", {"FAD"}) THEN 3 ELSE 1
Shielding == IF SomeAtom("name", {"FE", "MN", "CU", "MG"}) THEN 3 ELSE 1

\* C5: audit_quantum_candidate appends an entry whose Q-GEPS_Score is
\* (coherence + advantage + shielding + 2) / 12 * 100: coherence 3 when some
\* atom of the parsed list has residue PHE, TRP or TYR, advantage 3 when some
\* atom has residue FAD, shielding 3 when some atom has name FE, MN, CU or
\* MG, each 1 otherwise.
C5_QuantumScore ==
  (pc = "idle" /\ call = "audit_quantum_candidate")
    => /\ ret = entries[Len(entries)]
       /\ Len(entries) = Len(old_entries) + 1
       /\ Field(ret, "Q-GEPS_Score")
            = PyFloat((Coherence + Advantage + Shielding + 2) * 100, 12)
       /\ ParsedAtoms = <<>> => Field(ret, "Q-GEPS_Score") = PyFloat(500, 12)
       /\ (Coherence = 1 /\ Advantage = 1 /\ Shielding = 3)
            => Field(ret, "Q-GEPS_Score") = PyFloat(700, 12)

\* An atom of residue PHE before an atom of residue FAD: coherence and
\* advantage are 3, shielding is 1.
C5_Witness ==
  /\ pc = "idle" /\ call = "audit_quantum_candidate"
  /\ Len(ParsedAtoms) = 2
  /\ Field(ParsedAtoms[1], "resName").s = "PHE"
  /\ Field(ParsedAtoms[2], "resName").s = "FAD"
  /\ Field(ret, "Q-GEPS_Score") = PyFloat(75, 1)

Matches(part_id) ==
  {i \in 1..Len(entries) :
     HasKey(entries[i], "PartID") /\ Field(entries[i], "PartID") = part_id}

\* C6: get_entry_by_id returns the earliest-appended entry whose PartID is
\* the id, an empty record when there is none, and leaves the entries as
\* they were.
C6_GetEntryByIdFirstMatch ==
  (pc = "idle" /\ call = "get_entry_by_id")
    => /\ entries = old_entries
       /\ Matches(arg) = {} => ret = PyDict(<<>>, <<>>)
       /\ \A i \in Matches(arg) :
            (\A j \in Matches(arg) : i <= j) => ret = entries[i]

\* Two different entries share the PartID looked up.
C6_Witness ==
  /\ pc = "idle" /\ call = "get_entry_by_id"
  /\ \E i, j \in Matches(arg) : i < j /\ entries[i] # entries[j] /\ ret = entries[i]

RECURSIVE DumpsInOrder(_, _)
DumpsInOrder(es, i) ==
  IF i > Len(es) THEN <<>>
  ELSE (IF i > 1 THEN <<Tok(",")>> ELSE <<>>) \o Dumps(es[i]) \o DumpsInOrder(es, i + 1)

\* C7: without load_json the entries change only by one entry being appended
\* at the end: every step leaves the old sequence a prefix of the new one, a
\* successful audit appends exactly one entry, get_entry_by_id and to_json
\* append none, and the text of to_json lists the entries in their order.
C7_AppendOnly ==
  [][ /\ IsPrefix(entries, entries')
      /\ Len(entries') <= Len(entries) + 1
      /\ ( \/ ( /\ ncalls' = ncalls + 1 /\ pc' = "idle"
                /\ call' \in {"audit_structure", "audit_quantum_candidate"} )
           \/ ( /\ pc = "run_batch" /\ pc' = "run_batch"
                /\ Len(results') = Len(results) + 1 ) )
           => /\ Len(entries') = Len(entries) + 1
              /\ Len(requests') >= 1
              /\ requests'[Len(requests')].status_code = 200
      /\ (ncalls' = ncalls + 1 /\ call' \in {"get_entry_by_id", "to_json"})
           => entries' = entries
      /\ (ncalls' = ncalls + 1 /\ call' = "to_json")
           => json_str' = <<Tok("[")>> \o DumpsInOrder(entries, 1) \o <<Tok("]")>>
    ]_vars

\* to_json of a catalogue of three entries, the first two different.
C7_Witness ==
  /\ pc = "idle" /\ call = "to_json"
  /\ Len(entries) = 3
  /\ entries[1] # entries[2]
  /\ json_of = entries

\* C8: load_json of the text of to_json leaves the entries equal, field for
\* field and in order, to those to_json was taken of, whatever the catalogue
\* held when load_json was called.
C8_LoadJsonReplaces ==
  (pc = "idle" /\ call = "load_json") => entries = json_of

\* A catalogue with a structural entry and its atoms was saved, another
\* entry was added, and load_json brought the saved catalogue back.
C8_Witness ==
  /\ pc = "idle" /\ call = "load_json"
  /\ entries = json_of
  /\ Len(old_entries) = Len(entries) + 1
  /\ \E i \in 1..Len(entries) :
       /\ HasKey(entries[i], "Atoms")
       /\ Field(entries[i], "Atoms").items # <<>>

\* C9: an atom line shorter than the 54 characters that hold every field
\* never adds a record: the atom list has no more records than the text has
\* atom lines of full width.
C9_ShortAtomLineDropped ==
  pc = "parsed"
    => Len(data.atoms)
         <= Cardinality({i \in 1..Len(LinesOf(pdb_text)) :
                           /\ AtomTagged(LinesOf(pdb_text)[i])
                           /\ Len(LinesOf(pdb_text)[i]) >= FullWidth})

\* C10: whatever the batch size, every turn of the while of auto_run that
\* calls run_batch has taken a target from the queue.
C10_EveryTurnTakesATarget ==
  [][ (pc = "auto_run" /\ pc' = "run_batch") => Len(targets') < Len(targets) ]_vars

====
